---- MODULE Spec2Model ----
(***************************************************************************)
(* A model of oahc-go: the sliding-window RateLimiter (oci/rate_limiter.go),*)
(* the exponential and the binary backoff Manager (backoff/backoff.go in    *)
(* its two versions) and the two orchestrators (the daemon loop and the     *)
(* single-invocation main).  Time is wall-clock time in milliseconds.       *)
(***************************************************************************)
EXTENDS Integers, Sequences, FiniteSets, TLC

\* ------------------------------------------------------------------ bounds
\* The clock value after which no new operation is started.
MaxTime == 61000
\* How many Wait calls are issued in all.
MaxCalls == 11
\* How many times the clock moves on its own, outside a sleep.
MaxTicks == 2

\* --------------------------------------------------------------- constants
Millisecond == 1
Second == 1000 * Millisecond

\* oci/rate_limiter.go, const block
longTermWindow == 60 * Second
longTermLimit == 10
shortTermWindow == 10 * Second
shortTermLimit == 4

\* ------------------------------------------------------------------- state
VARIABLES
    now,                \* the clock, time.Now(), in ms
    requestTimestamps,  \* RateLimiter.requestTimestamps
    mutex,              \* RateLimiter.mutex: 0 when free, else the holder
    pc,                 \* per goroutine: its position in RateLimiter.Wait
    wake,               \* per goroutine: when its time.Sleep is due to return
    admitted,           \* history: the timestamp recorded by each returned Wait
    calls,              \* history: how many Wait calls were issued
    ticks,              \* history: how many times Tick moved the clock
    initialDelay,       \* backoff.Manager (exponential): initialDelay
    maxDelay,           \* backoff.Manager (exponential): maxDelay
    currentDelay,       \* backoff.Manager (exponential): currentDelay
    waitUntil,          \* backoff.Manager (exponential): waitUntil
    delays,             \* history: waitUntil - now of each HandleTMR of the streak
    lastOp,             \* history: the Manager method that ran last
    lastWasTMR,         \* backoff.Manager (binary): lastWasTMR
    sleeps,             \* history: what each HandleTMR slept, and 0 for each Reset (binary)
    mode,               \* which main runs: "daemon" (the loop) or "single" (one invocation)
    cfg,                \* the *config.Config main loaded
    opc,                \* main's position
    instances,          \* main: what ListInstances returned in this cycle
    targets,            \* main: len(availabilityDomains)
    adIdx,              \* main: the index of the availability domain the loop is at
    tmrHitInCycle,      \* main (daemon): tmrHitInCycle
    outcome,            \* how main ended, "" while it runs
    marker,             \* the waiter file too_many_requests_waiter.txt
    attempts,           \* history: the CreateInstance calls of this cycle and their results
    notified,           \* history: the Notify calls, by the target reported
    apiCalls,           \* history: how many provider calls were issued
    lastCall,           \* history: the last provider call and when it was issued
    tmrDeadline,        \* history: the deadline the last HandleTMR recorded
    cycles,             \* history: how many cycles the daemon started
    responses,          \* history: the provider calls of this cycle (daemon) or
                        \* invocation (single) and what each returned
    fileOps,            \* history: what this invocation did to the waiter file
    notifyFailed,       \* history: whether Notify returned an error
    throttledAt,        \* history: when setWaiter ran last, -1 if it never did
    invocations,        \* history: how many single invocations were started
    healthy,            \* the provider: whether it has stopped failing for good
    lastRequestTime,    \* oci.Client (paced): lastRequestTime
    pacerMutex,         \* oci.Client (paced): pacerMutex, 0 when free, else the holder
    ppc,                \* per goroutine: its position in paceRequest
    pwake,              \* per goroutine: when its time.Sleep in paceRequest is due
    paced,              \* history: the lastRequestTime each paceRequest recorded,
                        \* and whether that call slept
    bpc,                \* the caller's position in Client.buildAndDo
    request,            \* buildAndDo: the call and the *http.Request built for it
    response,           \* buildAndDo: the *http.Response and its body
    result,             \* buildAndDo: what it returned
    steps,              \* history: the steps of this buildAndDo call, in order
    classes,            \* what each main makes of the returned error
    clientCalls         \* history: how many buildAndDo calls were started

rlVars == <<requestTimestamps, mutex, pc, wake, admitted, calls, ticks>>
expVars == <<initialDelay, maxDelay, currentDelay, waitUntil, delays>>
binVars == <<lastWasTMR, sleeps>>
orchVars == <<mode, cfg, opc, instances, targets, adIdx, tmrHitInCycle, outcome, marker,
              attempts, notified, apiCalls, lastCall, tmrDeadline, cycles, responses,
              fileOps, notifyFailed, throttledAt, invocations>>
paceVars == <<lastRequestTime, pacerMutex, ppc, pwake, paced>>
clientVars == <<paceVars, bpc, request, response, result, steps, classes, clientCalls>>
vars == <<now, lastOp, rlVars, expVars, binVars, orchVars, healthy, clientVars>>

\* The goroutines that share one RateLimiter.
Goroutines == {1, 2}

\* How far the clock moves between two steps.  A Tick between the return of
\* a time.Sleep and the next statement is the sleep overshooting.
TickSteps == {4 * Second, 10 * Second}

Min(a, b) == IF a < b THEN a ELSE b
Max(a, b) == IF a > b THEN a ELSE b

\* ---------------------------------------- backoff.Manager (exponential)
\* The (BackoffInitialSeconds, BackoffMaxSeconds) pairs NewManager is given.
\* It takes them as they come: nothing orders the two or keeps them positive.
BackoffConfigs == {<<2, 60>>, <<1, 4>>, <<3, 3>>, <<0, 5>>, <<8, 4>>}

\* The longest throttle streak followed.
MaxStreak == 7

\* NewManager at time t with c = <<cfg.BackoffInitialSeconds, cfg.BackoffMaxSeconds>>.
NewManager(c, t) ==
    /\ initialDelay = c[1] * Second
    /\ maxDelay = c[2] * Second
    /\ currentDelay = c[1] * Second
    /\ waitUntil = t
    /\ delays = <<>>

\* The state of a program that has no exponential Manager.
ExpIdle ==
    /\ initialDelay = 0
    /\ maxDelay = 0
    /\ currentDelay = 0
    /\ waitUntil = 0
    /\ delays = <<>>

\* A Wait that returns at once, whatever the deadline.
WaitReturnNoSleep(t, deadline) == t

\* Manager.Wait: the time it returns at when called at t: it sleeps
\* time.Until(waitUntil) when that is positive.
WaitReturn(t, deadline) == IF deadline - t > 0 THEN deadline ELSE t

\* A HandleTMR that doubles without the cap.
NextDelayUncapped(cur, max) == cur * 2

\* Manager.HandleTMR: the delay of the next throttle.
NextDelay(cur, max) == IF cur * 2 > max THEN max ELSE cur * 2

\* Manager.Wait
ManagerWait ==
    /\ now' = WaitReturn(now, waitUntil)
    /\ lastOp' = "Wait"
    /\ UNCHANGED expVars

\* Manager.HandleTMR, run at time t
ManagerHandleTMR(t) ==
    /\ waitUntil' = t + currentDelay
    /\ currentDelay' = NextDelay(currentDelay, maxDelay)
    /\ delays' = Append(delays, (t + currentDelay) - t)
    /\ lastOp' = "HandleTMR"
    /\ UNCHANGED <<initialDelay, maxDelay>>

\* Manager.Reset: the delay it leaves.
ResetDelay(cur, initial) == IF cur > initial THEN initial ELSE cur

\* A Reset that leaves the resume deadline as it is.
ManagerResetKeepsDeadline(t) ==
    /\ currentDelay' = ResetDelay(currentDelay, initialDelay)
    /\ waitUntil' = waitUntil
    /\ delays' = <<>>
    /\ lastOp' = "Reset"
    /\ UNCHANGED <<initialDelay, maxDelay>>

\* Manager.Reset, run at time t
ManagerReset(t) ==
    /\ currentDelay' = ResetDelay(currentDelay, initialDelay)
    /\ waitUntil' = t
    /\ delays' = <<>>
    /\ lastOp' = "Reset"
    /\ UNCHANGED <<initialDelay, maxDelay>>

\* --------------------------------------------- backoff.Manager (binary)
\* How many calls of the binary Manager are followed.
MaxBinCalls == 6

\* A HandleTMR that sleeps 20 s every time.
TMRSleepAlwaysShort(wasTMR) == 20 * Second

\* Manager.HandleTMR: what it sleeps.
TMRSleep(wasTMR) == IF wasTMR THEN 40 * Second ELSE 20 * Second

\* NewManager
BinNewManager ==
    /\ lastWasTMR = FALSE
    /\ sleeps = <<>>

\* The state of a program that has no binary Manager.
BinIdle == BinNewManager

\* Manager.HandleTMR: sleep, then set the flag.
BinHandleTMR ==
    /\ now' = now + TMRSleep(lastWasTMR)
    /\ sleeps' = Append(sleeps, TMRSleep(lastWasTMR))
    /\ lastWasTMR' = TRUE
    /\ lastOp' = "HandleTMR"

\* Manager.Reset
BinReset ==
    /\ lastWasTMR' = FALSE
    /\ sleeps' = Append(sleeps, 0)
    /\ lastOp' = "Reset"
    /\ UNCHANGED now

\* ------------------------------------------------- provider responses
\* What a provider call returns: success, an *oci.APIError, or an error that
\* is no APIError (request failed, failed to sign request, undecodable body).
\* capacityMsg: strings.Contains(Message, "Out of host capacity").
Resp(kind, status, code, capacityMsg) ==
    [kind |-> kind, StatusCode |-> status, Code |-> code, capacityMsg |-> capacityMsg]

Ok == Resp("ok", 200, "", FALSE)
Throttled429 == Resp("api", 429, "TooManyRequests", FALSE)
ThrottledByCode == Resp("api", 400, "TooManyRequests", FALSE)
OutOfCapacity == Resp("api", 500, "InternalError", TRUE)
CapacityAndThrottled == Resp("api", 500, "TooManyRequests", TRUE)
NotAuthorized == Resp("api", 404, "NotAuthorizedOrNotFound", FALSE)
TransportFailure == Resp("transport", 0, "", FALSE)
SignFailure == Resp("sign", 0, "", FALSE)

Errors == {Throttled429, ThrottledByCode, OutOfCapacity, CapacityAndThrottled,
           NotAuthorized, TransportFailure, SignFailure}

\* errors.As(err, &apiErr)
IsAPIError(r) == r.kind = "api"

\* apiErr.StatusCode == 429 || apiErr.Code == "TooManyRequests"
IsThrottled(r) == IsAPIError(r) /\ (r.StatusCode = 429 \/ r.Code = "TooManyRequests")

\* apiErr.StatusCode == 500 && strings.Contains(apiErr.Message, "Out of host capacity")
IsCapacity(r) == IsAPIError(r) /\ r.StatusCode = 500 /\ r.capacityMsg

\* The daemon's handling with the capacity branch left out.
DaemonClassNoCapacity(r) ==
    IF r.kind = "ok" THEN "success"
    ELSE IF IsThrottled(r) THEN "throttled"
    ELSE "fatal"

\* A daemon that backs off at a capacity-exhausted target as at a throttled
\* one, and so ends the cycle there.
DaemonClassCapacityThrottles(r) ==
    IF r.kind = "ok" THEN "success"
    ELSE IF IsThrottled(r) \/ IsCapacity(r) THEN "throttled"
    ELSE "fatal"

\* The daemon's handling of a CreateInstance result: the throttle test first.
DaemonClass(r) ==
    IF r.kind = "ok" THEN "success"
    ELSE IF IsThrottled(r) THEN "throttled"
    ELSE IF IsCapacity(r) THEN "capacity"
    ELSE "fatal"

\* The single invocation taking a capacity-exhausted result for a success.
SingleClassCapacityIsSuccess(r) ==
    IF r.kind = "ok" \/ IsCapacity(r) THEN "success"
    ELSE IF IsThrottled(r) THEN "throttled"
    ELSE "fatal"

\* The single invocation going on to the next target after any error that is
\* not a throttle.
SingleClassFatalIsCapacity(r) ==
    IF r.kind = "ok" THEN "success"
    ELSE IF IsThrottled(r) THEN "throttled"
    ELSE "capacity"

\* The single invocation's handling of a CreateInstance result: the capacity
\* test first.
SingleClass(r) ==
    IF r.kind = "ok" THEN "success"
    ELSE IF IsCapacity(r) THEN "capacity"
    ELSE IF IsThrottled(r) THEN "throttled"
    ELSE "fatal"

\* An oci.Instance as main reads it: Shape == cfg.Shape, and LifecycleState.
Instance(sameShape, state) == [sameShape |-> sameShape, LifecycleState |-> state]
Running == Instance(TRUE, "RUNNING")
Terminated == Instance(TRUE, "TERMINATED")
OtherShape == Instance(FALSE, "RUNNING")

\* The instance lists ListInstances answers with.
InstanceLists == {<<>>, <<Running>>, <<Terminated>>, <<OtherShape, Terminated>>,
                  <<Running, Running>>, <<Running, OtherShape>>}

\* A count that takes every instance of the list.
ExistingInstancesAll(list) == Len(list)

\* main: the count of the instances of the configured shape that are not
\* TERMINATED.
RECURSIVE ExistingInstances(_)
ExistingInstances(list) ==
    IF list = <<>> THEN 0
    ELSE (IF Head(list).sameShape /\ Head(list).LifecycleState # "TERMINATED" THEN 1 ELSE 0)
         + ExistingInstances(Tail(list))

\* How long a provider call takes, pacing included.
CallDurations == {100 * Millisecond}

\* How many times the single-invocation main is run, one run after another.
MaxInvocations == 2

\* The most availability domains in a target list.
MaxTargets == 3
\* How many cycles of the daemon loop are followed.
MaxCycles == 2

\* time.Format(time.RFC3339) and time.Parse back: whole seconds are kept.
FormatRFC3339(t) == t - (t % Second)

NoMarker == [state |-> "absent", until |-> 0]
CorruptMarker == [state |-> "corrupt", until |-> 0]
MarkerAt(t) == [state |-> "valid", until |-> t]

\* The configurations main runs with.  ads: OCI_AVAILABILITY_DOMAIN, as the
\* number of domains it names, or "api" when it is empty and the list is
\* fetched, or "badjson" when it starts with "[" and does not parse.
Configs ==
    [telegram : BOOLEAN, MaxInstances : {1, 2}, TooManyRequestsWait : {300},
     ads : {[src |-> "api", n |-> 0], [src |-> "badjson", n |-> 0],
            [src |-> "config", n |-> 1], [src |-> "config", n |-> MaxTargets]}]

\* The state of a program in which no main runs.
OrchIdle ==
    /\ mode = "none"
    /\ cfg = [telegram |-> FALSE, MaxInstances |-> 1, TooManyRequestsWait |-> 300,
              ads |-> [src |-> "api", n |-> 0]]
    /\ opc = "exit"
    /\ instances = <<>>
    /\ targets = 0
    /\ adIdx = 1
    /\ tmrHitInCycle = FALSE
    /\ outcome = ""
    /\ marker = NoMarker
    /\ attempts = <<>>
    /\ notified = <<>>
    /\ apiCalls = 0
    /\ lastCall = [op |-> "", at |-> 0, done |-> 0]
    /\ tmrDeadline = 0
    /\ cycles = 0
    /\ responses = <<>>
    /\ fileOps = <<>>
    /\ notifyFailed = FALSE
    /\ throttledAt = -1
    /\ invocations = 0

\* ------------------------------------------------------------ oci.Signer
\* The methods buildAndDo is called with, and ones it could be.
Methods == {"GET", "POST", "PUT", "DELETE"}

\* strings.ToLower(req.Method)
ToLower(method) ==
    CASE method = "GET" -> "get"
      [] method = "POST" -> "post"
      [] method = "PUT" -> "put"
      [] method = "DELETE" -> "delete"

\* strings.Join(elems, sep)
RECURSIVE Join(_, _)
Join(elems, sep) ==
    IF elems = <<>> THEN ""
    ELSE IF Len(elems) = 1 THEN elems[1]
    ELSE elems[1] \o sep \o Join(Tail(elems), sep)

\* base64 of sha256.Sum256(body), as a term over the body.
ContentSha256(body) == "sha256(" \o body \o ")"

\* A Sign that takes the body headers in the order the request carries them.
BodyHeadersUnordered == <<"content-type", "content-length", "x-content-sha256">>

\* Sign: the names appended to headersToSign for POST and PUT.
BodyHeaders == <<"x-content-sha256", "content-type", "content-length">>

\* Sign: whether the body headers are set and signed.
SignsBody(method) == method = "POST" \/ method = "PUT"

\* Sign: headersToSign when it is done.
HeadersToSign(method) ==
    <<"(request-target)", "date", "host">> \o (IF SignsBody(method) THEN BodyHeaders ELSE <<>>)

\* Sign: the value of the signing-string line of each header name.
HeaderValue(name, method, uri, host, date, body) ==
    CASE name = "(request-target)" -> ToLower(method) \o " " \o uri
      [] name = "date" -> date
      [] name = "host" -> host
      [] name = "x-content-sha256" -> ContentSha256(body)
      [] name = "content-type" -> "application/json"
      [] name = "content-length" -> ToString(Len(body))

\* Sign: signingString as the += statements build it, the lines after the
\* first each led by a newline.
SigningString(method, uri, host, date, body) ==
    "(request-target): " \o ToLower(method) \o " " \o uri
        \o "\ndate: " \o date
        \o "\nhost: " \o host
        \o (IF SignsBody(method)
            THEN "\nx-content-sha256: " \o ContentSha256(body)
                     \o "\ncontent-type: " \o "application/json"
                     \o "\ncontent-length: " \o ToString(Len(body))
            ELSE "")

\* Sign: the headers parameter of the Authorization value.
AuthorizationHeaders(method) == Join(HeadersToSign(method), " ")

\* --------------------------------------------------- oci.Client (paced)
\* oci/api.go: const requestInterval
requestInterval == 20 * Second

\* rand.Intn(2000) milliseconds: the least and the most.
Jitters == {0, 1999 * Millisecond}

\* A paceRequest that never sleeps.
PaceSleepNone(elapsed, jitter) == 0

\* A paceRequest that sleeps the jitter alone.
PaceSleepJitterOnly(elapsed, jitter) ==
    IF elapsed < requestInterval THEN jitter ELSE 0

\* paceRequest: how long it sleeps, elapsed after the last request.
PaceSleep(elapsed, jitter) ==
    IF elapsed < requestInterval THEN requestInterval - elapsed + jitter ELSE 0

\* How many paceRequest calls are followed.
MaxRequests == 4
\* How many buildAndDo calls are followed.
MaxClientCalls == 2

\* The calls buildAndDo gets: the three the Client makes, and a PUT and a
\* DELETE for the methods it makes none with.
Call(op, method, host, uri, body) ==
    [op |-> op, method |-> method, host |-> host, uri |-> uri, body |-> body]
ClientCalls ==
    {Call("ListInstances", "GET", "iaas.r.oraclecloud.com",
          "/20160918/instances/?compartmentId=t", ""),
     Call("ListAvailabilityDomains", "GET", "identity.r.oraclecloud.com",
          "/20160918/availabilityDomains/?compartmentId=t", ""),
     Call("CreateInstance", "POST", "iaas.r.oraclecloud.com",
          "/20160918/instances/", "{\"shape\":\"s\"}"),
     Call("Update", "PUT", "iaas.r.oraclecloud.com", "/20160918/instances/i", "{}"),
     Call("Terminate", "DELETE", "iaas.r.oraclecloud.com", "/20160918/instances/i", "")}

\* time.Now().UTC().Format(http.TimeFormat) of the moment Sign runs at.
DateHeader(t) == "date@" \o ToString(t \div Second)

\* The HTTP statuses the provider answers with.
Statuses == {200, 204, 400, 429, 500, 503}

\* A response body: a JSON object with the members it has of code, message
\* (capacityMsg: whether it contains "Out of host capacity") and statusCode
\* (0: none), or text that does not decode into an APIError.
Body(form, code, capacityMsg, statusCode) ==
    [form |-> form, code |-> code, capacityMsg |-> capacityMsg, statusCode |-> statusCode]
Bodies ==
    {Body("object", c, m, 0) : c \in {"", "TooManyRequests", "InternalError"}, m \in BOOLEAN}
    \cup {Body("object", "LimitExceeded", FALSE, 429), Body("object", "", FALSE, 200)}
    \cup {Body("text", "", m, 0) : m \in BOOLEAN}

\* buildAndDo, status outside 200..299: the *APIError it returns.
\* json.Unmarshal sets from a JSON object the fields it has members for, the
\* untagged StatusCode included; otherwise Message is the whole body.
DecodeAPIError(status, body) ==
    IF body.form = "object"
    THEN Resp("api", IF body.statusCode # 0 THEN body.statusCode ELSE status,
              body.code, body.capacityMsg)
    ELSE Resp("api", status, "", body.capacityMsg)

\* buildAndDo: resp.StatusCode < 200 || resp.StatusCode >= 300
IsFailedResponse(status) == status < 200 \/ status >= 300

\* The errors buildAndDo returns without a response: by the step that failed.
BuildFailure(step) == Resp(step, 0, "", FALSE)

NoRequest == [op |-> "", method |-> "", host |-> "", uri |-> "", body |-> "",
              date |-> "", headers |-> <<>>, signingString |-> "", authorization |-> ""]
NoResponse == [StatusCode |-> 0, body |-> Body("none", "", FALSE, 0)]
NoResult == Resp("none", 0, "", FALSE)

\* NewClient at time t: the pacer, with lastRequestTime one interval back.
NewClient(t) ==
    /\ lastRequestTime = t - requestInterval
    /\ pacerMutex = 0
    /\ ppc = [g \in Goroutines |-> "idle"]
    /\ pwake = [g \in Goroutines |-> 0]
    /\ paced = <<>>

\* The state of a program in which no buildAndDo runs.
ClientIdle ==
    /\ NewClient(0)
    /\ bpc = "idle"
    /\ request = NoRequest
    /\ response = NoResponse
    /\ result = NoResult
    /\ steps = <<>>
    /\ classes = [single |-> "", daemon |-> ""]
    /\ clientCalls = 0

\* ------------------------------------------------------------- RateLimiter
\* ts.After(cutoff) over a slice: the entries strictly later than cutoff.
After(ts, cutoff) == SelectSeq(ts, LAMBDA t : t > cutoff)

\* Step 1 of Wait pruning to the short window instead of the long one.
PruneShortWindow(ts, t) == After(ts, t - shortTermWindow)

\* Step 1 of Wait: drop what is not later than now - longTermWindow.
Prune(ts, t) == After(ts, t - longTermWindow)

\* Step 2 of Wait counting over the long window a second time.
ShortTermCountLongWindow(ts, t) == Len(After(ts, t - longTermWindow))

\* Step 2 of Wait: the entries later than now - shortTermWindow.
ShortTermCount(ts, t) == Len(After(ts, t - shortTermWindow))

\* Step 3's test with the ceilings taken as exceeded, not as reached.
LimitsHitOffByOne(longTermCount, shortTermCount) ==
    longTermCount > longTermLimit \/ shortTermCount > shortTermLimit

\* Step 3's test with the short-window ceiling only.
LimitsHitShortOnly(longTermCount, shortTermCount) ==
    shortTermCount >= shortTermLimit

\* Step 3's test.
LimitsHit(longTermCount, shortTermCount) ==
    longTermCount >= longTermLimit \/ shortTermCount >= shortTermLimit

\* Step 3's sleep duration, for the pruned slice ts at time t.
SleepDuration(ts, t) ==
    LET longTermCount == Len(ts)
        shortTermCount == ShortTermCount(ts, t)
        longSleep == IF longTermCount >= longTermLimit
                     THEN ts[longTermCount - longTermLimit + 1] + longTermWindow - t + Millisecond
                     ELSE 0
        shortSleep == ts[longTermCount - shortTermLimit + 1] + shortTermWindow - t + Millisecond
    IN  IF shortTermCount >= shortTermLimit
        THEN IF longSleep = 0 \/ shortSleep < longSleep THEN shortSleep ELSE longSleep
        ELSE longSleep

\* Step 4 putting the new timestamp in front of the recorded ones.
RecordInFront(ts, t) == <<t>> \o ts

\* Step 4 returning without recording the request.
RecordNothing(ts, t) == ts

\* Step 4: rl.requestTimestamps = append(rl.requestTimestamps, now).
Record(ts, t) == Append(ts, t)

RLInit ==
    /\ requestTimestamps = <<>>
    /\ mutex = 0
    /\ pc = [g \in Goroutines |-> "idle"]
    /\ wake = [g \in Goroutines |-> 0]
    /\ admitted = <<>>
    /\ calls = 0
    /\ ticks = 0

\* What a step of the limiter leaves alone.
RLFrame == UNCHANGED <<lastOp, expVars, binVars, orchVars, healthy, clientVars>>

\* A goroutine calls rl.Wait() and reaches rl.mutex.Lock().
CallWait(g) ==
    /\ pc[g] = "idle"
    /\ calls < MaxCalls
    /\ calls' = calls + 1
    /\ pc' = [pc EXCEPT ![g] = "lock"]
    /\ UNCHANGED <<now, ticks, requestTimestamps, mutex, wake, admitted>>
    /\ RLFrame

\* A Lock that does not wait for the holder.
MutexIgnored == TRUE

\* sync.Mutex: Lock returns only while no goroutine holds the mutex.
MutexFree == mutex = 0

\* rl.mutex.Lock() returns.
Lock(g) ==
    /\ pc[g] = "lock"
    /\ MutexFree
    /\ mutex' = g
    /\ pc' = [pc EXCEPT ![g] = "loop"]
    /\ UNCHANGED <<now, ticks, requestTimestamps, wake, admitted, calls>>
    /\ RLFrame

\* One pass of the for loop: prune, count, then either start the sleep or
\* record the request, unlock (deferred) and return.
Iterate(g) ==
    /\ pc[g] = "loop"
    /\ LET pruned == Prune(requestTimestamps, now)
           longTermCount == Len(pruned)
           shortTermCount == ShortTermCount(pruned, now)
       IN  IF LimitsHit(longTermCount, shortTermCount)
           THEN LET sleepDuration == SleepDuration(pruned, now)
                IN  /\ requestTimestamps' = pruned
                    /\ IF sleepDuration > 0
                       THEN /\ pc' = [pc EXCEPT ![g] = "sleep"]
                            /\ wake' = [wake EXCEPT ![g] = now + sleepDuration]
                       ELSE UNCHANGED <<pc, wake>>
                    /\ UNCHANGED <<mutex, admitted>>
           ELSE /\ requestTimestamps' = Record(pruned, now)
                /\ admitted' = Append(admitted, now)
                /\ pc' = [pc EXCEPT ![g] = "idle"]
                /\ mutex' = 0
                /\ UNCHANGED wake
    /\ UNCHANGED <<now, ticks, calls>>
    /\ RLFrame

\* time.Sleep(sleepDuration) returns: at least the duration has passed.
SleepReturn(g) ==
    /\ pc[g] = "sleep"
    /\ now' = Max(now, wake[g])
    /\ pc' = [pc EXCEPT ![g] = "loop"]
    /\ UNCHANGED <<ticks, requestTimestamps, mutex, wake, admitted, calls>>
    /\ RLFrame

\* Time passes before the holder of the mutex reads time.Now(): the only
\* place of the limiter the clock is read at.
Tick ==
    /\ \E g \in Goroutines : pc[g] = "loop"
    /\ ticks < MaxTicks
    /\ ticks' = ticks + 1
    /\ \E d \in TickSteps :
        /\ now + d <= MaxTime
        /\ now' = now + d
    /\ UNCHANGED <<requestTimestamps, mutex, pc, wake, admitted, calls>>
    /\ RLFrame

InitRL ==
    /\ now = 0
    /\ lastOp = "none"
    /\ RLInit
    /\ ExpIdle
    /\ BinIdle
    /\ OrchIdle
    /\ healthy = FALSE
    /\ ClientIdle

NextRL ==
    \/ \E g \in Goroutines : CallWait(g)
    \/ \E g \in Goroutines : Lock(g)
    \/ \E g \in Goroutines : Iterate(g)
    \/ \E g \in Goroutines : SleepReturn(g)
    \/ Tick

SpecRL ==
    /\ InitRL
    /\ [][NextRL]_vars
    /\ \A g \in Goroutines :
        SF_vars(Lock(g)) /\ WF_vars(Iterate(g)) /\ WF_vars(SleepReturn(g))

OrchFrame == UNCHANGED <<rlVars, binVars, healthy, clientVars>>

\* A request of the client that is still in flight when main goes on.
ProviderCallNotAwaited(op, t, d) ==
    /\ apiCalls' = apiCalls + 1
    /\ lastCall' = [op |-> op, at |-> t, done |-> t + d + d]

\* One request of the client: issued at time t, returned to main d later.
ProviderCall(op, t, d) ==
    /\ apiCalls' = apiCalls + 1
    /\ lastCall' = [op |-> op, at |-> t, done |-> t + d]

NoProviderCall == UNCHANGED <<apiCalls, lastCall>>

\* What main saw a provider call return: r is Ok or the error.
Observed(op, r) == [op |-> op, resp |-> r]

\* tgNotifier.Notify(details of target i), when Telegram is configured; sent:
\* whether it returned nil.  Its error is only logged.
Notify(i, sent) ==
    /\ notified' = IF cfg.telegram THEN Append(notified, i) ELSE notified
    /\ notifyFailed' = (cfg.telegram /\ ~sent)

\* main ends.
Exit(how) ==
    /\ opc' = "exit"
    /\ outcome' = how

\* ------------------------------------------------------ main, the daemon
\* Top of the loop: backoffManager.Wait().
DaemonWait ==
    /\ mode = "daemon"
    /\ opc = "wait"
    /\ cycles < MaxCycles
    /\ cycles' = cycles + 1
    /\ now' = WaitReturn(now, waitUntil)
    /\ lastOp' = "Wait"
    /\ opc' = "list"
    /\ attempts' = <<>>
    /\ instances' = <<>>
    /\ NoProviderCall
    /\ UNCHANGED <<mode, cfg, targets, adIdx, tmrHitInCycle, outcome, marker, notified,
                   tmrDeadline, responses, fileOps, notifyFailed, throttledAt,
                   invocations, expVars>>
    /\ OrchFrame

\* client.ListInstances(), the 30 s sleep on an error, the count and the
\* exit when the target instance count is reached.
DaemonListInstances ==
    /\ mode = "daemon"
    /\ opc = "list"
    /\ \E d \in CallDurations, r \in Errors \cup InstanceLists :
        /\ ProviderCall("ListInstances", now, d)
        /\ IF r \in Errors
           THEN /\ responses' = <<Observed("ListInstances", r)>>
                /\ now' = now + d + 30 * Second
                /\ opc' = "wait"
                /\ UNCHANGED <<instances, outcome>>
           ELSE /\ responses' = <<Observed("ListInstances", Ok)>>
                /\ now' = now + d
                /\ instances' = r
                /\ IF ExistingInstances(r) >= cfg.MaxInstances
                   THEN Exit("TargetReached")
                   ELSE opc' = "ads" /\ UNCHANGED outcome
    /\ UNCHANGED <<mode, cfg, targets, adIdx, tmrHitInCycle, marker, attempts, notified,
                   tmrDeadline, cycles, fileOps, notifyFailed, throttledAt, invocations,
                   lastOp, expVars>>
    /\ OrchFrame

\* getAvailabilityDomains(client, cfg), the 30 s sleep on an error, and
\* tmrHitInCycle := false.
DaemonGetADs ==
    /\ mode = "daemon"
    /\ opc = "ads"
    /\ \/ /\ cfg.ads.src = "config"
          /\ NoProviderCall
          /\ targets' = cfg.ads.n
          /\ opc' = "create"
          /\ UNCHANGED <<now, responses>>
       \/ /\ cfg.ads.src = "badjson"
          /\ NoProviderCall
          /\ now' = now + 30 * Second
          /\ opc' = "wait"
          /\ UNCHANGED <<targets, responses>>
       \/ /\ cfg.ads.src = "api"
          /\ \E d \in CallDurations :
              /\ ProviderCall("ListAvailabilityDomains", now, d)
              /\ \/ /\ \E r \in Errors :
                          responses' = Append(responses, Observed("ListAvailabilityDomains", r))
                    /\ now' = now + d + 30 * Second
                    /\ opc' = "wait"
                    /\ UNCHANGED targets
                 \/ /\ \E n \in 0..MaxTargets : targets' = n
                    /\ responses' = Append(responses, Observed("ListAvailabilityDomains", Ok))
                    /\ now' = now + d
                    /\ opc' = "create"
    /\ adIdx' = 1
    /\ tmrHitInCycle' = FALSE
    /\ UNCHANGED <<mode, cfg, instances, outcome, marker, attempts, notified,
                   tmrDeadline, cycles, fileOps, notifyFailed, throttledAt, invocations,
                   lastOp, expVars>>
    /\ OrchFrame

\* One pass of the loop over the availability domains: client.CreateInstance(ad)
\* and what main does with its result.
DaemonCreateInstance ==
    /\ mode = "daemon"
    /\ opc = "create"
    /\ adIdx <= targets
    /\ \E d \in CallDurations, r \in Errors \cup {Ok}, sent \in BOOLEAN :
        /\ ProviderCall("CreateInstance", now, d)
        /\ now' = now + d
        /\ attempts' = Append(attempts, [ad |-> adIdx, resp |-> r])
        /\ responses' = Append(responses, Observed("CreateInstance", r))
        /\ CASE DaemonClass(r) = "throttled" ->
                  /\ tmrHitInCycle' = TRUE
                  /\ ManagerHandleTMR(now + d)
                  /\ tmrDeadline' = now + d + currentDelay
                  /\ opc' = "after"
                  /\ UNCHANGED <<adIdx, notified, notifyFailed, outcome>>
             [] DaemonClass(r) = "capacity" ->
                  /\ adIdx' = adIdx + 1
                  /\ UNCHANGED <<opc, tmrHitInCycle, notified, notifyFailed, outcome,
                                 tmrDeadline, lastOp, expVars>>
             [] DaemonClass(r) = "fatal" ->
                  /\ tmrHitInCycle' = TRUE
                  /\ opc' = "after"
                  /\ UNCHANGED <<adIdx, notified, notifyFailed, outcome, tmrDeadline,
                                 lastOp, expVars>>
             [] DaemonClass(r) = "success" ->
                  /\ Notify(adIdx, sent)
                  /\ ManagerReset(now + d)
                  /\ Exit("Success")
                  /\ UNCHANGED <<adIdx, tmrHitInCycle, tmrDeadline>>
    /\ UNCHANGED <<mode, cfg, instances, targets, marker, cycles, fileOps, throttledAt,
                   invocations>>
    /\ OrchFrame

\* The end of a cycle in which nothing resets the backoff.
EndOfCycleNeverResets(tmrHit) == FALSE

\* After the loop over the availability domains: if !tmrHitInCycle.
EndOfCycleResets(tmrHit) == ~tmrHit

\* After the loop over the availability domains: the Reset and the 2 s sleep
\* of a cycle without tmrHitInCycle, then back to the top.
DaemonEndCycle ==
    /\ mode = "daemon"
    /\ opc = "after" \/ (opc = "create" /\ adIdx > targets)
    /\ IF EndOfCycleResets(tmrHitInCycle)
       THEN /\ ManagerReset(now)
            /\ now' = now + 2 * Second
       ELSE UNCHANGED <<now, lastOp, expVars>>
    /\ opc' = "wait"
    /\ NoProviderCall
    /\ UNCHANGED <<mode, cfg, instances, targets, adIdx, tmrHitInCycle, outcome, marker,
                   attempts, notified, tmrDeadline, cycles, responses, fileOps,
                   notifyFailed, throttledAt, invocations>>
    /\ OrchFrame

\* ------------------------------------------- main, the single invocation
\* One operation on the waiter file; ok: whether it returned no error (a
\* file that does not exist is no error for checkWaiter and removeWaiter).
FileOp(op, ok) == [op |-> op, ok |-> ok]

\* A removeWaiter that leaves the file where it is.
RemoveWaiterSkipped(removed) == marker' = marker

\* os.Remove of the waiter file; removed: whether it succeeded.  Its error is
\* dropped by every caller.
RemoveWaiter(removed) == marker' = IF removed THEN NoMarker ELSE marker

\* A checkWaiter that takes no deadline as pending.
WaiterNeverActive(t, until) == FALSE

\* checkWaiter: time.Now().Before(waitUntil).
WaiterActive(t, until) == t < until

\* checkWaiter() and main's return when it reports an error.  readable:
\* whether os.ReadFile of an existing file succeeded.
SingleCheckWaiter ==
    /\ mode = "single"
    /\ opc = "checkWaiter"
    /\ \E readable, removed \in BOOLEAN :
        IF marker.state = "absent"
        THEN /\ opc' = "list"
             /\ fileOps' = <<FileOp("read", TRUE)>>
             /\ UNCHANGED <<marker, outcome>>
        ELSE IF ~readable
        THEN /\ Exit("WaiterUnreadable")
             /\ fileOps' = <<FileOp("read", FALSE)>>
             /\ UNCHANGED marker
        ELSE IF marker.state = "corrupt"
        THEN /\ RemoveWaiter(removed)
             /\ fileOps' = <<FileOp("read", TRUE), FileOp("remove", removed)>>
             /\ opc' = "list"
             /\ UNCHANGED outcome
        ELSE IF WaiterActive(now, marker.until)
        THEN /\ Exit("WaiterActive")
             /\ fileOps' = <<FileOp("read", TRUE)>>
             /\ UNCHANGED marker
        ELSE /\ RemoveWaiter(removed)
             /\ fileOps' = <<FileOp("read", TRUE), FileOp("remove", removed)>>
             /\ opc' = "list"
             /\ UNCHANGED outcome
    /\ NoProviderCall
    /\ UNCHANGED <<now, mode, cfg, instances, targets, adIdx, tmrHitInCycle, attempts,
                   notified, tmrDeadline, cycles, responses, notifyFailed, throttledAt,
                   invocations, lastOp, expVars>>
    /\ OrchFrame

\* client.ListInstances(), log.Fatalf on an error, the count and the exit
\* when the maximum is reached.
SingleListInstances ==
    /\ mode = "single"
    /\ opc = "list"
    /\ \E d \in CallDurations, r \in Errors \cup InstanceLists :
        /\ ProviderCall("ListInstances", now, d)
        /\ now' = now + d
        /\ IF r \in Errors
           THEN /\ responses' = Append(responses, Observed("ListInstances", r))
                /\ Exit("Fatal")
                /\ UNCHANGED instances
           ELSE /\ responses' = Append(responses, Observed("ListInstances", Ok))
                /\ instances' = r
                /\ IF ExistingInstances(r) >= cfg.MaxInstances
                   THEN Exit("TargetReached")
                   ELSE opc' = "ads" /\ UNCHANGED outcome
    /\ UNCHANGED <<mode, cfg, targets, adIdx, tmrHitInCycle, marker, attempts, notified,
                   tmrDeadline, cycles, fileOps, notifyFailed, throttledAt, invocations,
                   lastOp, expVars>>
    /\ OrchFrame

\* getAvailabilityDomains(client, cfg) and log.Fatalf on an error.
SingleGetADs ==
    /\ mode = "single"
    /\ opc = "ads"
    /\ \/ /\ cfg.ads.src = "config"
          /\ NoProviderCall
          /\ targets' = cfg.ads.n
          /\ opc' = "create"
          /\ UNCHANGED <<now, outcome, responses>>
       \/ /\ cfg.ads.src = "badjson"
          /\ NoProviderCall
          /\ Exit("Fatal")
          /\ UNCHANGED <<now, targets, responses>>
       \/ /\ cfg.ads.src = "api"
          /\ \E d \in CallDurations :
              /\ ProviderCall("ListAvailabilityDomains", now, d)
              /\ now' = now + d
              /\ \/ /\ \E r \in Errors :
                          responses' = Append(responses, Observed("ListAvailabilityDomains", r))
                    /\ Exit("Fatal")
                    /\ UNCHANGED targets
                 \/ /\ \E n \in 0..MaxTargets : targets' = n
                    /\ responses' = Append(responses, Observed("ListAvailabilityDomains", Ok))
                    /\ opc' = "create"
                    /\ UNCHANGED outcome
    /\ adIdx' = 1
    /\ UNCHANGED <<mode, cfg, instances, tmrHitInCycle, marker, attempts, notified,
                   tmrDeadline, cycles, fileOps, notifyFailed, throttledAt, invocations,
                   lastOp, expVars>>
    /\ OrchFrame

\* A setWaiter that writes the current time as the deadline.
SetWaiterNow(waitSeconds, t, written) ==
    marker' = IF written THEN MarkerAt(FormatRFC3339(t)) ELSE marker

\* setWaiter(waitSeconds) at time t; written: whether os.WriteFile succeeded.
SetWaiter(waitSeconds, t, written) ==
    marker' = IF written THEN MarkerAt(FormatRFC3339(t + waitSeconds * Second)) ELSE marker

\* One pass of the loop over the availability domains: client.CreateInstance(ad)
\* and what main does with its result.
SingleCreateInstance ==
    /\ mode = "single"
    /\ opc = "create"
    /\ adIdx <= targets
    /\ \E d \in CallDurations, r \in Errors \cup {Ok}, fileOk \in BOOLEAN, sent \in BOOLEAN :
        /\ ProviderCall("CreateInstance", now, d)
        /\ attempts' = Append(attempts, [ad |-> adIdx, resp |-> r])
        /\ responses' = Append(responses, Observed("CreateInstance", r))
        /\ CASE SingleClass(r) = "capacity" ->
                  /\ now' = now + d + 16 * Second
                  /\ adIdx' = adIdx + 1
                  /\ UNCHANGED <<opc, outcome, marker, notified, notifyFailed, fileOps,
                                 throttledAt>>
             [] SingleClass(r) = "throttled" ->
                  /\ now' = now + d
                  /\ SetWaiter(cfg.TooManyRequestsWait, now + d, fileOk)
                  /\ fileOps' = Append(fileOps, FileOp("write", fileOk))
                  /\ throttledAt' = now + d
                  /\ Exit("Throttled")
                  /\ UNCHANGED <<adIdx, notified, notifyFailed>>
             [] SingleClass(r) = "fatal" ->
                  /\ now' = now + d
                  /\ Exit("Fatal")
                  /\ UNCHANGED <<adIdx, marker, notified, notifyFailed, fileOps, throttledAt>>
             [] SingleClass(r) = "success" ->
                  /\ now' = now + d
                  /\ Notify(adIdx, sent)
                  /\ RemoveWaiter(fileOk)
                  /\ fileOps' = Append(fileOps, FileOp("remove", fileOk \/ marker.state = "absent"))
                  /\ Exit("Success")
                  /\ UNCHANGED <<adIdx, throttledAt>>
    /\ UNCHANGED <<mode, cfg, instances, targets, tmrHitInCycle, tmrDeadline, cycles,
                   invocations, lastOp, expVars>>
    /\ OrchFrame

\* The loop over the availability domains ends: "No capacity found".
SingleNoCapacity ==
    /\ mode = "single"
    /\ opc = "create"
    /\ adIdx > targets
    /\ Exit("NoCapacity")
    /\ NoProviderCall
    /\ UNCHANGED <<now, mode, cfg, instances, targets, adIdx, tmrHitInCycle, marker,
                   attempts, notified, tmrDeadline, cycles, responses, fileOps,
                   notifyFailed, throttledAt, invocations, lastOp, expVars>>
    /\ OrchFrame

\* The backoff configurations the daemon is run with.
DaemonBackoffConfigs == {<<2, 60>>, <<8, 4>>}

\* The waiter files a single invocation may find: none, a corrupt one, one
\* whose time has passed and one 5 minutes ahead.
StartMarkers == {NoMarker, CorruptMarker, MarkerAt(-60 * Second), MarkerAt(300 * Second)}

\* main up to the loop (daemon) or up to checkWaiter (single invocation):
\* the configuration is loaded, the client and the Manager are constructed.
InitOrch ==
    /\ now = 0
    /\ mode \in {"daemon", "single"}
    /\ cfg \in Configs
    /\ IF mode = "daemon"
       THEN /\ \E c \in DaemonBackoffConfigs : NewManager(c, 0)
            /\ lastOp = "NewManager"
            /\ opc = "wait"
            /\ marker = NoMarker
       ELSE /\ ExpIdle
            /\ lastOp = "none"
            /\ opc = "checkWaiter"
            /\ marker \in StartMarkers
    /\ instances = <<>>
    /\ targets = 0
    /\ adIdx = 1
    /\ tmrHitInCycle = FALSE
    /\ outcome = ""
    /\ attempts = <<>>
    /\ notified = <<>>
    /\ apiCalls = 0
    /\ lastCall = [op |-> "", at |-> 0, done |-> 0]
    /\ tmrDeadline = 0
    /\ cycles = 0
    /\ responses = <<>>
    /\ fileOps = <<>>
    /\ notifyFailed = FALSE
    /\ throttledAt = -1
    /\ invocations = IF mode = "single" THEN 1 ELSE 0
    /\ healthy = FALSE
    /\ RLInit
    /\ BinIdle
    /\ ClientIdle

NextOrch ==
    \/ DaemonWait
    \/ DaemonListInstances
    \/ DaemonGetADs
    \/ DaemonCreateInstance
    \/ DaemonEndCycle
    \/ SingleCheckWaiter
    \/ SingleListInstances
    \/ SingleGetADs
    \/ SingleCreateInstance
    \/ SingleNoCapacity

SpecOrch == InitOrch /\ [][NextOrch]_vars

\* --------------------------------- the daemon with a provider that recovers
\* What the provider answers once it is healthy: ListInstances gives a list
\* with fewer than MaxInstances instances counted, the enumeration gives at
\* least one target, and CreateInstance answers capacity-exhausted or
\* success, success at the last target at the latest.
Favourable ==
    healthy =>
        /\ opc = "list" => opc' = "ads"
        /\ opc = "ads" => (opc' = "create" /\ targets' >= 1)
        /\ (opc = "create" /\ adIdx <= targets)
              => /\ attempts'[Len(attempts')].resp \in {Ok, OutOfCapacity}
                 /\ adIdx = targets => attempts'[Len(attempts')].resp = Ok

\* One step of the daemon's loop.
DaemonStep ==
    \/ DaemonWait
    \/ DaemonListInstances
    \/ DaemonGetADs
    \/ DaemonCreateInstance
    \/ DaemonEndCycle

\* One step of the daemon against the provider as it is.
LiveDaemonStep == DaemonStep /\ Favourable

\* Between two cycles the provider becomes healthy, and stays so.  The
\* targets can be enumerated only with a configuration that parses.
Recover ==
    /\ mode = "daemon"
    /\ opc = "wait"
    /\ cycles < MaxCycles
    /\ cfg.ads.src # "badjson"
    /\ ~healthy
    /\ healthy' = TRUE
    /\ UNCHANGED <<now, lastOp, rlVars, expVars, binVars, orchVars, clientVars>>

\* The daemon started with Telegram configured.
InitLive ==
    /\ InitOrch
    /\ mode = "daemon"
    /\ cfg.telegram

NextLive ==
    \/ LiveDaemonStep
    \/ Recover

\* The daemon is one goroutine that runs on: its sleeps end and its calls
\* return.
SpecLive == InitLive /\ [][NextLive]_vars /\ WF_vars(LiveDaemonStep)

\* ------------------------- the single invocation, run again by a scheduler
\* How long after one run of main has ended the scheduler starts the next:
\* well inside a suspension of TooManyRequestsWait = 300 s, just short of
\* it, and at its end.
RestartDelays == {60 * Second, 299950 * Millisecond, 300 * Second}

\* The process is started again after a run that was throttled, or after a
\* later one: main runs from the top, with nothing but the waiter file left
\* of the run before.
SingleRestart ==
    /\ mode = "single"
    /\ opc = "exit"
    /\ throttledAt >= 0
    /\ invocations < MaxInvocations
    /\ invocations' = invocations + 1
    /\ \E d \in RestartDelays : now' = now + d
    /\ opc' = "checkWaiter"
    /\ outcome' = ""
    /\ instances' = <<>>
    /\ targets' = 0
    /\ adIdx' = 1
    /\ attempts' = <<>>
    /\ notified' = <<>>
    /\ notifyFailed' = FALSE
    /\ responses' = <<>>
    /\ fileOps' = <<>>
    /\ NoProviderCall
    /\ UNCHANGED <<mode, cfg, tmrHitInCycle, marker, tmrDeadline, cycles, throttledAt,
                   lastOp, expVars>>
    /\ OrchFrame

\* The first run starts with no waiter file, Telegram not configured.
InitRestart ==
    /\ InitOrch
    /\ mode = "single"
    /\ marker = NoMarker
    /\ ~cfg.telegram
    /\ cfg.MaxInstances = 1

NextRestart ==
    \/ SingleCheckWaiter
    \/ SingleListInstances
    \/ SingleGetADs
    \/ SingleCreateInstance
    \/ SingleNoCapacity
    \/ SingleRestart

SpecRestart == InitRestart /\ [][NextRestart]_vars

\* ------------------------------------------------- Client.buildAndDo
\* What a step of buildAndDo leaves alone.
ClientFrame == UNCHANGED <<lastOp, rlVars, expVars, binVars, orchVars, healthy>>

\* A buildAndDo that notes the error and goes on to send the request.
ReturnErrorAndSend(r) ==
    /\ result' = r
    /\ bpc' = "send"

\* buildAndDo returns err without a response.
ReturnError(r) ==
    /\ result' = r
    /\ bpc' = "returned"

\* A caller enters buildAndDo(method, path, queryParams, body).
BuildAndDoCall ==
    /\ bpc = "idle"
    /\ clientCalls < MaxClientCalls
    /\ clientCalls' = clientCalls + 1
    /\ \E c \in ClientCalls :
        request' = [NoRequest EXCEPT !.op = c.op, !.method = c.method, !.host = c.host,
                                     !.uri = c.uri, !.body = c.body]
    /\ response' = NoResponse
    /\ result' = NoResult
    /\ steps' = <<>>
    /\ classes' = [single |-> "", daemon |-> ""]
    /\ bpc' = "pace"
    /\ UNCHANGED <<now, paceVars>>
    /\ ClientFrame

\* c.paceRequest(), from Lock to the deferred Unlock.
BuildAndDoPace ==
    /\ bpc = "pace"
    /\ \E jitter \in Jitters :
        LET sleepDuration == PaceSleep(now - lastRequestTime, jitter)
        IN  /\ now' = now + sleepDuration
            /\ lastRequestTime' = now + sleepDuration
            /\ paced' = Append(paced, [at |-> now + sleepDuration, slept |-> sleepDuration > 0])
    /\ steps' = Append(steps, "paceRequest")
    /\ bpc' = "build"
    /\ UNCHANGED <<pacerMutex, ppc, pwake, request, response, result, classes, clientCalls>>
    /\ ClientFrame

\* url.Parse, json.Marshal and http.NewRequest; failed: the one that
\* returned an error, "" when none did.
BuildAndDoBuild ==
    /\ bpc = "build"
    /\ steps' = Append(steps, "build")
    /\ \E failed \in {"", "parse URL", "marshal request body", "create request"} :
        IF failed = ""
        THEN bpc' = "sign" /\ UNCHANGED result
        ELSE ReturnError(BuildFailure(failed))
    /\ UNCHANGED <<now, paceVars, request, response, classes, clientCalls>>
    /\ ClientFrame

\* c.signer.Sign(req, reqBody); signed: whether rsa.SignPKCS1v15 succeeded.
\* The headers are set before the signature is made.
BuildAndDoSign ==
    /\ bpc = "sign"
    /\ steps' = Append(steps, "Sign")
    /\ \E signed \in BOOLEAN :
        LET date == DateHeader(now) IN
        /\ request' = [request EXCEPT
              !.date = date,
              !.headers = HeadersToSign(request.method),
              !.signingString =
                  SigningString(request.method, request.uri, request.host, date, request.body),
              !.authorization =
                  IF signed THEN AuthorizationHeaders(request.method) ELSE ""]
        /\ IF signed
           THEN bpc' = "send" /\ UNCHANGED result
           ELSE ReturnError(SignFailure)
    /\ UNCHANGED <<now, paceVars, response, classes, clientCalls>>
    /\ ClientFrame

\* c.httpClient.Do(req) and io.ReadAll(resp.Body); either may fail.
BuildAndDoSend ==
    /\ bpc = "send"
    /\ steps' = Append(steps, "send")
    /\ \E d \in CallDurations :
        /\ now' = now + d
        /\ \/ /\ ReturnError(TransportFailure)
              /\ UNCHANGED response
           \/ /\ \E st \in Statuses, b \in Bodies : response' = [StatusCode |-> st, body |-> b]
              /\ bpc' = "classify"
              /\ UNCHANGED result
    /\ UNCHANGED <<paceVars, request, classes, clientCalls>>
    /\ ClientFrame

\* The end of buildAndDo: an *APIError for a failed response, the body
\* otherwise.
BuildAndDoClassify ==
    /\ bpc = "classify"
    /\ steps' = Append(steps, "classify")
    /\ result' = IF IsFailedResponse(response.StatusCode)
                 THEN DecodeAPIError(response.StatusCode, response.body)
                 ELSE Resp("ok", response.StatusCode, "", FALSE)
    /\ bpc' = "returned"
    /\ UNCHANGED <<now, paceVars, request, response, classes, clientCalls>>
    /\ ClientFrame

\* The caller takes the result: what the target loop of each main makes of
\* it.
MainClassify ==
    /\ bpc = "returned"
    /\ classes' = [single |-> SingleClass(result), daemon |-> DaemonClass(result)]
    /\ bpc' = "idle"
    /\ UNCHANGED <<now, paceVars, request, response, result, steps, clientCalls>>
    /\ ClientFrame

InitClient ==
    /\ now = 0
    /\ lastOp = "none"
    /\ RLInit
    /\ ExpIdle
    /\ BinIdle
    /\ OrchIdle
    /\ healthy = FALSE
    /\ ClientIdle

NextClient ==
    \/ BuildAndDoCall
    \/ BuildAndDoPace
    \/ BuildAndDoBuild
    \/ BuildAndDoSign
    \/ BuildAndDoSend
    \/ BuildAndDoClassify
    \/ MainClassify

SpecClient == InitClient /\ [][NextClient]_vars

\* ----------------------- Client.paceRequest called from several goroutines
PaceFrame ==
    UNCHANGED <<lastOp, rlVars, expVars, binVars, orchVars, healthy, bpc, request,
                response, result, steps, classes, clientCalls>>

\* How far the clock moves between two steps, when not to a wake-up time.
PaceTickSteps == {5 * Second, 20 * Second}

\* Goroutine g calls c.paceRequest().
PaceCall(g) ==
    /\ ppc[g] = "idle"
    /\ Len(paced) + Cardinality({h \in Goroutines : ppc[h] # "idle"}) < MaxRequests
    /\ ppc' = [ppc EXCEPT ![g] = "lock"]
    /\ UNCHANGED <<now, lastRequestTime, pacerMutex, pwake, paced>>
    /\ PaceFrame

\* c.pacerMutex.Lock()
PaceLock(g) ==
    /\ ppc[g] = "lock"
    /\ pacerMutex = 0
    /\ pacerMutex' = g
    /\ ppc' = [ppc EXCEPT ![g] = "check"]
    /\ UNCHANGED <<now, lastRequestTime, pwake, paced>>
    /\ PaceFrame

\* elapsed := time.Since(c.lastRequestTime) and the start of the sleep when
\* elapsed < requestInterval.
PaceCheck(g) ==
    /\ ppc[g] = "check"
    /\ \E jitter \in Jitters :
        LET sleepDuration == PaceSleep(now - lastRequestTime, jitter)
        IN  IF sleepDuration > 0
            THEN /\ pwake' = [pwake EXCEPT ![g] = now + sleepDuration]
                 /\ ppc' = [ppc EXCEPT ![g] = "sleep"]
            ELSE /\ pwake' = [pwake EXCEPT ![g] = 0]
                 /\ ppc' = [ppc EXCEPT ![g] = "mark"]
    /\ UNCHANGED <<now, lastRequestTime, pacerMutex, paced>>
    /\ PaceFrame

\* time.Sleep returns, at its wake-up time or later.
PaceSleepReturn(g) ==
    /\ ppc[g] = "sleep"
    /\ now >= pwake[g]
    /\ ppc' = [ppc EXCEPT ![g] = "mark"]
    /\ UNCHANGED <<now, lastRequestTime, pacerMutex, pwake, paced>>
    /\ PaceFrame

\* c.lastRequestTime = time.Now() and the deferred Unlock.
PaceMark(g) ==
    /\ ppc[g] = "mark"
    /\ lastRequestTime' = now
    /\ paced' = Append(paced, [at |-> now, slept |-> pwake[g] > 0])
    /\ pacerMutex' = 0
    /\ ppc' = [ppc EXCEPT ![g] = "idle"]
    /\ UNCHANGED <<now, pwake>>
    /\ PaceFrame

\* Time passes: to the wake-up time of a sleeper, or by a step.
PaceTick ==
    /\ \E t \in {pwake[g] : g \in {h \in Goroutines : ppc[h] = "sleep"}}
                 \cup {now + d : d \in PaceTickSteps} :
        /\ t > now
        /\ t <= MaxTime + requestInterval
        /\ now' = t
    /\ UNCHANGED paceVars
    /\ PaceFrame

InitPace ==
    /\ now = 0
    /\ lastOp = "none"
    /\ RLInit
    /\ ExpIdle
    /\ BinIdle
    /\ OrchIdle
    /\ healthy = FALSE
    /\ ClientIdle

NextPace ==
    \/ \E g \in Goroutines :
          \/ PaceCall(g)
          \/ PaceLock(g)
          \/ PaceCheck(g)
          \/ PaceSleepReturn(g)
          \/ PaceMark(g)
    \/ PaceTick

SpecPace == InitPace /\ [][NextPace]_vars

\* ------------------------------ the exponential Manager driven by any caller
InitExp ==
    /\ now = 0
    /\ lastOp = "NewManager"
    /\ \E c \in BackoffConfigs : NewManager(c, 0)
    /\ RLInit
    /\ BinIdle
    /\ OrchIdle
    /\ healthy = FALSE
    /\ ClientIdle

ExpFrame == UNCHANGED <<rlVars, binVars, orchVars, healthy, clientVars>>

ExpWait == ManagerWait /\ ExpFrame

ExpHandleTMR ==
    /\ Len(delays) < MaxStreak
    /\ now <= MaxTime
    /\ ManagerHandleTMR(now)
    /\ UNCHANGED now
    /\ ExpFrame

ExpReset == ManagerReset(now) /\ UNCHANGED now /\ ExpFrame

\* Time passes between two calls of the Manager.
ExpTick ==
    /\ \E d \in TickSteps :
        /\ now + d <= MaxTime
        /\ now' = now + d
    /\ UNCHANGED <<lastOp, expVars>>
    /\ ExpFrame

NextExp == ExpWait \/ ExpHandleTMR \/ ExpReset \/ ExpTick

SpecExp == InitExp /\ [][NextExp]_vars

\* ----------------------------------- the binary Manager driven by any caller
InitBin ==
    /\ now = 0
    /\ lastOp = "NewManager"
    /\ BinNewManager
    /\ RLInit
    /\ ExpIdle
    /\ OrchIdle
    /\ healthy = FALSE
    /\ ClientIdle

BinFrame == UNCHANGED <<rlVars, expVars, orchVars, healthy, clientVars>>

BinCallHandleTMR ==
    /\ Len(sleeps) < MaxBinCalls
    /\ BinHandleTMR
    /\ BinFrame

BinCallReset ==
    /\ Len(sleeps) < MaxBinCalls
    /\ BinReset
    /\ BinFrame

\* Time passes between two calls of the Manager.
BinTick ==
    /\ \E d \in TickSteps :
        /\ now + d <= 2 * longTermWindow
        /\ now' = now + d
    /\ UNCHANGED <<lastOp, binVars>>
    /\ BinFrame

NextBin == BinCallHandleTMR \/ BinCallReset \/ BinTick

SpecBin == InitBin /\ [][NextBin]_vars

\* ---------------------------------------- backoff.Manager: properties
RECURSIVE Pow2(_)
Pow2(n) == IF n = 0 THEN 1 ELSE 2 * Pow2(n - 1)

\* C5: with initial = 2 s and max = 60 s the n-th consecutive HandleTMR with
\* no Reset in between records waitUntil = now + min(2 s * 2^(n-1), 60 s).
C5_ExponentialDelays ==
    (initialDelay = 2 * Second /\ maxDelay = 60 * Second)
        => \A n \in 1..Len(delays) :
            delays[n] = Min(2 * Second * Pow2(n - 1), 60 * Second)

\* C5's case: a streak long enough for the cap to be reached and kept.
C5_Witness ==
    /\ initialDelay = 2 * Second
    /\ maxDelay = 60 * Second
    /\ Len(delays) >= 7
    /\ delays[6] = 60 * Second
    /\ delays[7] = 60 * Second
    /\ waitUntil = now + 60 * Second

\* C6: for every configuration NewManager accepts, currentDelay never
\* exceeds maxDelay, never decreases across a HandleTMR, and changes back to
\* initialDelay only inside Reset.
C6_DelayBoundedAndMonotone ==
    /\ [](currentDelay <= maxDelay)
    /\ [][lastOp' = "HandleTMR" /\ delays' # delays => currentDelay' >= currentDelay]_vars
    /\ [][currentDelay' # currentDelay /\ currentDelay' = initialDelay
            => lastOp' = "Reset" /\ delays' = <<>>]_vars

\* C7: after Reset, in any reachable state, currentDelay equals
\* initialDelay, so the first HandleTMR of every streak records initialDelay.
C7_ResetRestoresInitial ==
    /\ lastOp = "Reset" => currentDelay = initialDelay
    /\ Len(delays) >= 1 => delays[1] = initialDelay

\* C9: the binary HandleTMR sleeps 20 s when it is the first call or follows
\* a Reset and 40 s when it follows a HandleTMR, and lastWasTMR is true
\* exactly when the last call was a HandleTMR.
C9_BinarySleeps ==
    /\ \A i \in 1..Len(sleeps) :
        sleeps[i] # 0 =>
            sleeps[i] = IF i = 1 \/ sleeps[i - 1] = 0 THEN 20 * Second ELSE 40 * Second
    /\ lastWasTMR = (Len(sleeps) > 0 /\ sleeps[Len(sleeps)] # 0)

\* C9's case: a streak of three throttles, a Reset, and the throttle after it.
C9_Witness ==
    /\ Len(sleeps) = 5
    /\ sleeps = <<20 * Second, 40 * Second, 40 * Second, 0, 20 * Second>>
    /\ now >= 120 * Second

\* ------------------------------------------------ main: properties
\* A response that is capacity-exhausted and nothing else: status 500 with
\* the capacity message, and neither status 429 nor code TooManyRequests.
ReportsCapacityOnly(r) == IsCapacity(r) /\ ~IsThrottled(r)

\* C8: in the daemon, once HandleTMR has recorded a resume deadline D, no
\* provider call is issued before D, and the backoffManager.Wait of the next
\* iteration returns no earlier than D.
C8_NoCallBeforeDeadline ==
    /\ [][apiCalls' # apiCalls => lastCall'.at >= tmrDeadline]_vars
    /\ [][mode = "daemon" /\ opc = "wait" /\ opc' = "list" => now' >= tmrDeadline]_vars

\* C8's case: a throttle set a deadline, the next Wait slept until it, and
\* ListInstances was issued at the deadline.
C8_Witness ==
    /\ mode = "daemon"
    /\ tmrDeadline > 0
    /\ cycles >= 2
    /\ lastCall.op = "ListInstances"
    /\ lastCall.at = tmrDeadline

\* C10: in both orchestrators, while the targets tried in a cycle each
\* reported capacity-exhausted, CreateInstance was called on them in list
\* order, each once, and the next target is the one the loop is at; a
\* success is the last call of the cycle, ends main in Success, and Notify
\* was called once, with that target's details, if Telegram is configured and
\* not at all otherwise.
C10_TargetsInOrderUntilSuccess ==
    LET k == Len(attempts) IN
    /\ \A i \in 1..k : attempts[i].ad = i
    /\ \A i \in 1..k : attempts[i].resp = Ok => i = k
    /\ (k >= 1 /\ k < targets /\ \A i \in 1..k : ReportsCapacityOnly(attempts[i].resp))
        => opc = "create" /\ adIdx = k + 1 /\ outcome = "" /\ notified = <<>>
    /\ (k >= 1 /\ attempts[k].resp = Ok
            /\ \A i \in 1..(k - 1) : ReportsCapacityOnly(attempts[i].resp))
        => /\ opc = "exit"
           /\ outcome = "Success"
           /\ notified = IF cfg.telegram THEN <<k>> ELSE <<>>

\* C10's case: targets [A, B, C], A and B out of capacity, C created, the
\* notification sent for C.
C10_Witness ==
    /\ targets = 3
    /\ Len(attempts) = 3
    /\ attempts[1].resp = OutOfCapacity
    /\ attempts[2].resp = OutOfCapacity
    /\ attempts[3].resp = Ok
    /\ notified = <<3>>
    /\ outcome = "Success"

\* ------------------------------------------------- RateLimiter: properties
\* How many entries of history h lie in the half-open window (t - w, t].
WindowCount(h, t, w) == Len(SelectSeq(h, LAMBDA x : t - w < x /\ x <= t))

\* The instants a window can end at with the most entries in it: every
\* admission time, and the current time.
Instants == {admitted[i] : i \in 1..Len(admitted)} \cup {now}

InSection(g) == pc[g] \in {"loop", "sleep"}

IsSuffix(s, t) ==
    /\ Len(s) <= Len(t)
    /\ \A i \in 1..Len(s) : s[i] = t[Len(t) - Len(s) + i]

\* C1: after any sequence of Wait calls, for every instant t at most 10
\* admitted calls have a timestamp in (t - 60 s, t] and at most 4 have one in
\* (t - 10 s, t].
C1_WindowCeilings ==
    \A t \in Instants :
        /\ WindowCount(admitted, t, longTermWindow) <= longTermLimit
        /\ WindowCount(admitted, t, shortTermWindow) <= shortTermLimit

\* C1's case: more than ten calls were admitted, the 60 s window that ends at
\* the last of them is full, and so is some 10 s window.
C1_Witness ==
    /\ Len(admitted) > longTermLimit
    /\ WindowCount(admitted, admitted[Len(admitted)], longTermWindow) = longTermLimit
    /\ \E t \in Instants : WindowCount(admitted, t, shortTermWindow) = shortTermLimit

\* C2: the (k+4)-th admitted call is timestamped no earlier than 10 s after
\* the k-th and the (k+10)-th no earlier than 60 s after the k-th, for every
\* k; it holds with or without delays between the calls, so in particular
\* for a burst of back-to-back calls.
C2_SpacingOfAdmissions ==
    \A k \in 1..Len(admitted) :
        /\ k + shortTermLimit <= Len(admitted)
            => admitted[k + shortTermLimit] >= admitted[k] + shortTermWindow
        /\ k + longTermLimit <= Len(admitted)
            => admitted[k + longTermLimit] >= admitted[k] + longTermWindow

\* C2's case: a burst with no delay between the calls (the clock moved only
\* inside Wait's sleeps) whose 5th and 11th calls were admitted as early as
\* the limiter lets them.
C2_Witness ==
    /\ ticks = 0
    /\ Len(admitted) > longTermLimit
    /\ admitted[1] = 0
    /\ admitted[shortTermLimit + 1] = admitted[1] + shortTermWindow + Millisecond
    /\ admitted[longTermLimit + 1] = admitted[1] + longTermWindow + Millisecond

\* C3: every Wait call returns (given the fairness of SpecRL, in which a
\* sleep returns and so the clock advances); the step in which a call
\* returns appends exactly one timestamp, the admission time, to what is
\* left of the recorded window after pruning, and no other step appends.
C3_WaitReturnsAndRecordsOnce ==
    /\ \A g \in Goroutines : (pc[g] # "idle") ~> (pc[g] = "idle")
    /\ [][ IF \E g \in Goroutines : pc[g] # "idle" /\ pc'[g] = "idle"
           THEN /\ Len(requestTimestamps') >= 1
                /\ requestTimestamps'[Len(requestTimestamps')] = now
                /\ IsSuffix(SubSeq(requestTimestamps', 1, Len(requestTimestamps') - 1),
                            requestTimestamps)
                /\ admitted' = Append(admitted, now)
           ELSE /\ IsSuffix(requestTimestamps', requestTimestamps)
                /\ admitted' = admitted ]_vars

\* C3's case: the 11th call arrived at 20.001 s with both windows saturated
\* (ten calls in the last 60 s, four of them at 20.001 s), slept twice and
\* was admitted at 60.001 s.
C3_Witness ==
    /\ ticks = 1
    /\ admitted = <<0, 0, 10000, 10000, 10000, 10000,
                    20001, 20001, 20001, 20001, 60001>>
    /\ requestTimestamps = <<10000, 10000, 10000, 10000,
                             20001, 20001, 20001, 20001, 60001>>
    /\ \A g \in Goroutines : pc[g] = "idle"

\* C4: with several goroutines calling Wait on one RateLimiter, at most one
\* is inside the prune/count/record section at a time and it is the holder
\* of the mutex, the admitted calls of all of them together keep to both
\* ceilings, and every caller is admitted.
C4_ConcurrentCallers ==
    /\ [](\A g, h \in Goroutines : InSection(g) /\ InSection(h) => g = h)
    /\ [](\A g \in Goroutines : InSection(g) => mutex = g)
    /\ [](\A i \in 1..Len(admitted) :
            /\ WindowCount(admitted, admitted[i], longTermWindow) <= longTermLimit
            /\ WindowCount(admitted, admitted[i], shortTermWindow) <= shortTermLimit)
    /\ \A g \in Goroutines : (pc[g] = "lock") ~> (pc[g] = "idle")

\* C4's case: one goroutine sleeps inside Wait holding the mutex while the
\* other is blocked in Lock, after calls were admitted at different times.
C4_Witness ==
    /\ pc[1] = "sleep"
    /\ pc[2] = "lock"
    /\ mutex = 1
    /\ \E i, j \in 1..Len(admitted) : admitted[i] # admitted[j]

\* ------------------------------------------------ orchestrators: properties
Last(s) == s[Len(s)]

\* A step in which CreateInstance returned r with IsThrottled(r).
CreateThrottledStep ==
    /\ apiCalls' = apiCalls + 1
    /\ lastCall'.op = "CreateInstance"
    /\ IsThrottled(Last(attempts').resp)

\* C11: when CreateInstance on a target reports throttled (status 429 or code
\* TooManyRequests), the throttle handler runs exactly once in that step
\* (HandleTMR in the daemon, setWaiter in the single invocation), no further
\* target is attempted in that cycle, and then the daemon goes back to the
\* top of the loop without a Reset and waits out the backoff, while the
\* single invocation exits.
C11_ThrottleStopsCycle ==
    /\ [][CreateThrottledStep /\ mode = "daemon"
            => /\ lastOp' = "HandleTMR"
               /\ Len(delays') = Len(delays) + 1
               /\ opc' = "after"]_vars
    /\ [][CreateThrottledStep /\ mode = "single"
            => /\ Len(fileOps') = Len(fileOps) + 1
               /\ Last(fileOps').op = "write"
               /\ opc' = "exit"
               /\ outcome' = "Throttled"]_vars
    /\ [][attempts # <<>> /\ IsThrottled(Last(attempts).resp)
            => attempts' = attempts \/ (attempts' = <<>> /\ lastOp' = "Wait")]_vars
    /\ [][mode = "daemon" /\ opc = "after" /\ IsThrottled(Last(attempts).resp)
            => opc' = "wait" /\ UNCHANGED <<now, expVars, apiCalls>>]_vars
    /\ [][mode = "daemon" /\ opc = "wait" /\ attempts # <<>>
            /\ IsThrottled(Last(attempts).resp) /\ lastOp' = "Wait"
            => now' >= tmrDeadline /\ opc' = "list"]_vars

\* A step of the daemon in which Manager.HandleTMR ran, once.
HandleTMRStep == lastOp' = "HandleTMR" /\ Len(delays') = Len(delays) + 1

\* C12: in the daemon, a provider call (ListInstances, ListAvailabilityDomains
\* or CreateInstance) that returns a throttled response is followed by
\* exactly one HandleTMR, and HandleTMR runs in no other step.
C12_HandleTMRPerThrottle ==
    /\ [][mode = "daemon" /\ apiCalls' = apiCalls + 1
            => (IsThrottled(Last(responses').resp) <=> HandleTMRStep)]_vars
    /\ [][mode = "daemon" /\ apiCalls' = apiCalls => ~HandleTMRStep]_vars

\* An error that is neither capacity-exhausted nor throttled.
IsFatalError(r) == r.kind # "ok" /\ ~IsCapacity(r) /\ ~IsThrottled(r)

\* C13: in the single invocation, an error from ListInstances, from the
\* enumeration of the targets, or from CreateInstance when it is neither
\* capacity-exhausted nor throttled, is the last thing the invocation sees:
\* main ends as Fatal with no provider call and no target after it, no
\* notification sent and no waiter file written.
C13_SingleFatalTerminates ==
    mode = "single" =>
        /\ \A i \in 1..Len(responses) :
              (\/ responses[i].op # "CreateInstance" /\ responses[i].resp # Ok
               \/ IsFatalError(responses[i].resp))
              => i = Len(responses) /\ opc = "exit" /\ outcome = "Fatal"
        /\ outcome = "Fatal"
              => /\ notified = <<>>
                 /\ \A i \in 1..Len(fileOps) : fileOps[i].op # "write"
                 /\ \/ cfg.ads.src = "badjson" /\ Last(responses).op = "ListInstances"
                    \/ Last(responses).resp # Ok

\* C13's case: targets [A, B, C], A out of capacity, B fails with an error
\* that is neither, and main has ended without trying C.
C13_Witness ==
    /\ mode = "single"
    /\ outcome = "Fatal"
    /\ targets = 3
    /\ Len(attempts) = 2
    /\ attempts[1].resp = OutOfCapacity
    /\ attempts[2].resp = NotAuthorized

\* C14: in the daemon, after a CreateInstance error that is neither
\* capacity-exhausted nor throttled no further provider call is issued: the
\* session is over.
C14_DaemonFatalTerminates ==
    [][(/\ mode = "daemon"
        /\ responses # <<>>
        /\ Last(responses).op = "CreateInstance"
        /\ IsFatalError(Last(responses).resp))
        => apiCalls' = apiCalls]_vars

\* C15: in both orchestrators Notify is called at most once per session, and
\* only for the target whose CreateInstance succeeded, the session then
\* ending as Success; whether or not Notify returned an error, a successful
\* session ends as Success after its post-success step: the Reset of the
\* backoff Manager (daemon) or removeWaiter (single invocation).
C15_NotifyOnceOnSuccess ==
    /\ Len(notified) <= 1
    /\ notified # <<>>
          => /\ attempts # <<>>
             /\ Last(attempts).resp = Ok
             /\ notified = <<Len(attempts)>>
             /\ outcome = "Success"
    /\ notifyFailed => notified # <<>> /\ outcome = "Success"
    /\ outcome = "Success"
          => /\ opc = "exit"
             /\ Last(attempts).resp = Ok
             /\ mode = "daemon" => lastOp = "Reset" /\ waitUntil = now /\ delays = <<>>
             /\ mode = "single" => fileOps # <<>> /\ Last(fileOps).op = "remove"

\* C15's case: the daemon created an instance on the second target, Notify
\* returned an error, and the session ended as Success after the Reset.
C15_Witness ==
    /\ mode = "daemon"
    /\ notifyFailed
    /\ notified = <<2>>
    /\ outcome = "Success"
    /\ lastOp = "Reset"

\* The loop over the targets has run out and every target (there may be
\* none) reported capacity-exhausted and nothing else.
AllTargetsOutOfCapacity ==
    /\ opc = "create"
    /\ adIdx > targets
    /\ Len(attempts) = targets
    /\ \A i \in 1..Len(attempts) : ReportsCapacityOnly(attempts[i].resp)

\* C16: when every target of a cycle reported capacity-exhausted, the daemon
\* calls Reset, sleeps 2 s, issues no call meanwhile and goes to the top of
\* the loop, from where the next step is Wait followed by ListInstances;
\* the single invocation exits as NoCapacity and writes no waiter file.
C16_AllTargetsExhausted ==
    /\ [][AllTargetsOutOfCapacity /\ mode = "daemon"
            => /\ lastOp' = "Reset"
               /\ waitUntil' = now
               /\ now' = now + 2 * Second
               /\ opc' = "wait"
               /\ apiCalls' = apiCalls]_vars
    /\ [][mode = "daemon" /\ opc = "wait" => opc' = "list" /\ apiCalls' = apiCalls]_vars
    /\ [][mode = "daemon" /\ opc = "list" => lastCall'.op = "ListInstances"]_vars
    /\ [][AllTargetsOutOfCapacity /\ mode = "single"
            => /\ opc' = "exit"
               /\ outcome' = "NoCapacity"
               /\ UNCHANGED <<marker, fileOps, apiCalls>>
               /\ \A i \in 1..Len(fileOps) : fileOps[i].op # "write"]_vars

\* C16's case: the daemon found targets [A, B, C] all out of capacity, reset
\* the backoff, slept 2 s and is back at the top of the loop.
C16_Witness ==
    /\ mode = "daemon"
    /\ opc = "wait"
    /\ targets = 3
    /\ Len(attempts) = 3
    /\ \A i \in 1..3 : attempts[i].resp = OutOfCapacity
    /\ lastOp = "Reset"
    /\ now = waitUntil + 2 * Second

\* Some provider call of the cycle returned a throttled response.
ThrottleInCycle == \E i \in 1..Len(responses) : IsThrottled(responses[i].resp)

\* C17: in the daemon, when the next cycle's backoffManager.Wait starts, the
\* cycle before it has called Reset if none of its provider calls returned a
\* throttled response, and has not called Reset if one did; and a cycle that
\* ends in Success has called Reset.
C17_ResetOnNonThrottledOutcome ==
    /\ [][mode = "daemon" /\ cycles >= 1 /\ opc = "wait" /\ opc' = "list"
            => (lastOp = "Reset" <=> ~ThrottleInCycle)]_vars
    /\ [][mode = "daemon" /\ outcome' = "Success" => lastOp' = "Reset"]_vars

\* C18: a single invocation that finds at startup a waiter file holding a
\* timestamp later than now ends in checkWaiter: it leaves the file as it is
\* and issues no provider call.
C18_ActiveMarkerBlocksRun ==
    /\ [][(/\ mode = "single"
            /\ opc = "checkWaiter"
            /\ marker.state = "valid"
            /\ marker.until > now)
            => /\ opc' = "exit"
               /\ outcome' \in {"WaiterActive", "WaiterUnreadable"}
               /\ marker' = marker
               /\ apiCalls' = apiCalls]_vars
    /\ [](outcome \in {"WaiterActive", "WaiterUnreadable"} => responses = <<>>)

\* C18's case: the waiter file holds a time 5 minutes ahead and main has
\* ended without a provider call, the file still there.
C18_Witness ==
    /\ mode = "single"
    /\ outcome = "WaiterActive"
    /\ marker = MarkerAt(300 * Second)
    /\ now < marker.until
    /\ apiCalls = 0
    /\ fileOps = <<FileOp("read", TRUE)>>

\* checkWaiter runs in this step.
CheckWaiterStep == mode = "single" /\ opc = "checkWaiter" /\ opc' # "checkWaiter"

\* The waiter file holds a timestamp that is not after now, or nothing that
\* parses as a timestamp.
MarkerStale == marker.state = "corrupt" \/ (marker.state = "valid" /\ marker.until <= now)

\* C19: checkWaiter lets the run proceed exactly when the waiter file is
\* absent, holds a timestamp not after now, or does not parse; and whenever
\* the run proceeds, no waiter file exists.
C19_ProceedsWithoutMarker ==
    [][CheckWaiterStep
        => /\ opc' = "list" <=> (marker.state = "absent" \/ MarkerStale)
           /\ opc' = "list" => marker' = NoMarker]_vars

\* C19, amended: checkWaiter lets the run proceed exactly when the waiter
\* file is absent, or was read and is stale (a timestamp not after now, or
\* unparseable); a file that cannot be read ends the run like a pending
\* deadline does.  In the stale cases removeWaiter is called before the run
\* proceeds, and no waiter file exists afterwards if that removal succeeded;
\* if it failed the run proceeds all the same, the file left as it was.
C19_ProceedsAfterRemoveAttempt ==
    [][CheckWaiterStep
        => /\ opc' = "list"
                <=> \/ marker.state = "absent"
                    \/ MarkerStale /\ fileOps'[1] = FileOp("read", TRUE)
           /\ opc' # "list"
                => /\ opc' = "exit"
                   /\ marker' = marker
                   /\ \/ outcome' = "WaiterUnreadable" /\ fileOps' = <<FileOp("read", FALSE)>>
                      \/ /\ outcome' = "WaiterActive"
                         /\ marker.state = "valid"
                         /\ now < marker.until
           /\ opc' = "list" /\ marker.state = "absent"
                => marker' = NoMarker /\ Len(fileOps') = 1
           /\ opc' = "list" /\ MarkerStale
                => /\ Len(fileOps') = 2
                   /\ fileOps'[2].op = "remove"
                   /\ marker' = IF fileOps'[2].ok THEN NoMarker ELSE marker]_vars

\* C19's case: the waiter file held a time that has passed, checkWaiter
\* removed it and the run went on to ListInstances.
C19_Witness ==
    /\ mode = "single"
    /\ invocations = 1
    /\ fileOps = <<FileOp("read", TRUE), FileOp("remove", TRUE)>>
    /\ marker = NoMarker
    /\ lastCall.op = "ListInstances"

\* The deadline a throttle at throttledAt asks for.
SuspendedUntil == throttledAt + cfg.TooManyRequestsWait * Second

\* C20: across runs of the single-invocation main, a throttled
\* CreateInstance at time t persists a waiter file with the deadline
\* t + TooManyRequestsWait seconds and ends the run; every later run that
\* starts before that deadline ends in checkWaiter without a provider call;
\* and the first run that starts at or after it deletes the file and goes on
\* to ListInstances.
C20_SuspensionAcrossRestarts ==
    /\ [][CreateThrottledStep /\ mode = "single"
            => /\ marker' = MarkerAt(now' + cfg.TooManyRequestsWait * Second)
               /\ opc' = "exit"]_vars
    /\ [][CheckWaiterStep /\ throttledAt >= 0 /\ now < SuspendedUntil
            => opc' = "exit" /\ apiCalls' = apiCalls]_vars
    /\ [](throttledAt >= 0 /\ invocations > 1 /\ lastCall.at > throttledAt
            => lastCall.at >= SuspendedUntil)
    /\ [][CheckWaiterStep /\ marker.state = "valid" /\ throttledAt >= 0
            /\ now >= SuspendedUntil
            => opc' = "list" /\ marker' = NoMarker]_vars

\* ------------------------------------------------ the Client: properties
\* C21: every APIError buildAndDo returns is of exactly one of the classes
\* capacity-exhausted, throttled and fatal: the capacity test and the
\* throttle test never both hold for it, and the single invocation (capacity
\* test first) and the daemon (throttle test first) give it the same class.
C21_ExactlyOneClass ==
    /\ IsAPIError(result) => ~(IsCapacity(result) /\ IsThrottled(result))
    /\ classes.single = classes.daemon

\* The steps of a buildAndDo call that runs to its end.
StepOrder == <<"paceRequest", "build", "Sign", "send", "classify">>

IsPrefix(s, t) == Len(s) <= Len(t) /\ \A i \in 1..Len(s) : s[i] = t[i]

\* The errors of the steps before the request is sent.
BeforeSendFailures == {"parse URL", "marshal request body", "create request", "sign"}

\* C22: the steps of every buildAndDo call occur in the order paceRequest,
\* build, Sign, send, classify; the request is sent only after paceRequest
\* has recorded the call and Sign has set the Authorization header; and a
\* call that failed in URL parsing, body marshalling, request construction
\* or signing has returned without sending anything.
C22_StepOrder ==
    /\ IsPrefix(steps, StepOrder)
    /\ (\E i \in 1..Len(steps) : steps[i] = "send")
          => /\ Len(paced) = clientCalls
             /\ request.authorization # ""
             /\ result.kind \notin BeforeSendFailures
    /\ result.kind \in BeforeSendFailures
          => /\ bpc \in {"returned", "idle"}
             /\ response = NoResponse
             /\ \A i \in 1..Len(steps) : steps[i] \notin {"send", "classify"}
    /\ result.kind \in {"ok", "api"} => steps = StepOrder

\* C22's case: the second call of a Client was paced, built, signed, sent
\* and answered with an error status.
C22_Witness ==
    /\ clientCalls = 2
    /\ Len(paced) = 2
    /\ steps = StepOrder
    /\ result.kind = "api"
    /\ request.authorization # ""

\* C23: no provider call is in flight while the orchestrator is between two
\* steps, and every ListInstances, ListAvailabilityDomains or CreateInstance
\* call is issued only when the call before it has returned.
C23_SequentialCalls ==
    /\ [](lastCall.done <= now)
    /\ [][apiCalls' # apiCalls
            => /\ lastCall'.at >= lastCall.done
               /\ lastCall'.done >= lastCall'.at]_vars

\* C23's case: the daemon, in a cycle after its first, has had a
\* CreateInstance call return that followed the calls of the cycle before.
C23_Witness ==
    /\ mode = "daemon"
    /\ cycles >= 1
    /\ apiCalls >= 4
    /\ lastCall.op = "CreateInstance"
    /\ lastCall.done > lastCall.at
    /\ lastCall.done = now

\* The signing string that has one "name: value" line for each of names.
LinesOf(names, r) ==
    Join([i \in 1..Len(names) |->
            names[i] \o ": " \o HeaderValue(names[i], r.method, r.uri, r.host, r.date, r.body)],
         "\n")

\* C24: once Sign has run, the signing string is the lines (request-target),
\* date, host in that order when the method is neither POST nor PUT, and
\* those followed by x-content-sha256, content-type, content-length when it
\* is POST or PUT; and the headers parameter of the Authorization value is
\* the names of those lines joined by spaces in the same order.
C24_SigningString ==
    (\E i \in 1..Len(steps) : steps[i] = "Sign") =>
        LET names == IF request.method \in {"POST", "PUT"}
                     THEN <<"(request-target)", "date", "host",
                            "x-content-sha256", "content-type", "content-length">>
                     ELSE <<"(request-target)", "date", "host">>
        IN /\ request.signingString = LinesOf(names, request)
           /\ request.headers = names
           /\ request.authorization # "" => request.authorization = Join(names, " ")

\* C24's case: a POST request with a body has been signed and sent.
C24_Witness ==
    /\ request.method = "POST"
    /\ request.body # ""
    /\ Len(request.headers) = 6
    /\ request.authorization # ""
    /\ bpc = "returned"
    /\ response # NoResponse

\* C25: in both orchestrators, once a provider call has returned the error
\* of a failed Sign, no further provider call is issued.
C25_SignFailureIsFatal ==
    [][(responses # <<>> /\ Last(responses).resp = SignFailure)
        => apiCalls' = apiCalls]_vars

\* The instances of a list that are of the configured shape and not TERMINATED.
Matching(list) ==
    {i \in 1..Len(list) : list[i].sameShape /\ list[i].LifecycleState # "TERMINATED"}

\* C26: in both orchestrators, when ListInstances has answered with a list,
\* main exits as TargetReached exactly when the list has at least
\* MaxInstances instances of the configured shape that are not TERMINATED,
\* and CreateInstance is called only after a list that has fewer.
C26_ExistingInstanceCheck ==
    /\ []((/\ responses # <<>>
           /\ Last(responses) = Observed("ListInstances", Ok))
          => ((opc = "exit" /\ outcome = "TargetReached")
                <=> Cardinality(Matching(instances)) >= cfg.MaxInstances))
    /\ [](outcome = "TargetReached"
            => /\ Last(responses) = Observed("ListInstances", Ok)
               /\ \A i \in 1..Len(responses) : responses[i].op # "CreateInstance")
    /\ [][(apiCalls' # apiCalls /\ lastCall'.op = "CreateInstance")
            => Cardinality(Matching(instances)) < cfg.MaxInstances]_vars

\* C26's case: the daemon, in a cycle after its first, got a list with one
\* running instance of the shape and one of another shape, and has exited
\* with MaxInstances = 1 without a CreateInstance in that cycle.
C26_Witness ==
    /\ mode = "daemon"
    /\ cfg.MaxInstances = 1
    /\ cycles >= 2
    /\ apiCalls >= 3
    /\ attempts = <<>>
    /\ instances = <<Running, OtherShape>>
    /\ opc = "exit"
    /\ outcome = "TargetReached"

\* C27: on one Client, whichever goroutines call paceRequest, the times of
\* two consecutive admitted requests are at least requestInterval apart, and
\* the first request after NewClient is admitted without a sleep.
C27_PacedApart ==
    /\ \A i \in 2..Len(paced) : paced[i].at - paced[i - 1].at >= requestInterval
    /\ paced # <<>> => ~paced[1].slept
    /\ paced # <<>> => lastRequestTime = Last(paced).at

\* C27's case: three requests have been admitted, the second and the third
\* after a sleep, and another goroutine has called paceRequest.
C27_Witness ==
    /\ Len(paced) = 3
    /\ paced[2].slept
    /\ paced[3].slept
    /\ \E g \in Goroutines : ppc[g] = "lock"

\* C28: in the daemon, the provider call that follows a call that failed in
\* transport is the ListInstances of a later cycle, issued a positive time
\* after the failed call returned.
C28_TransportFailureDelayed ==
    [][(/\ mode = "daemon"
        /\ responses # <<>>
        /\ Last(responses).resp = TransportFailure
        /\ apiCalls' # apiCalls)
        => /\ opc = "list"
           /\ lastCall'.op = "ListInstances"
           /\ lastCall'.at > lastCall.done]_vars

\* C29: once the provider is healthy from some cycle on - ListInstances and
\* the enumeration succeed, fewer than MaxInstances instances are counted,
\* and some target's CreateInstance succeeds while the targets before it are
\* out of capacity - the daemon eventually ends in Success; and the daemon
\* ends only as Success or as TargetReached.
C29_DaemonLiveness ==
    /\ healthy ~> (opc = "exit" /\ outcome = "Success")
    /\ [](opc = "exit" => outcome \in {"Success", "TargetReached"})

\* C29's case: after a cycle that failed, the provider became healthy and
\* the daemon created an instance at its second target, the first being out
\* of capacity.
C29_Witness ==
    /\ healthy
    /\ cycles >= 2
    /\ attempts = <<[ad |-> 1, resp |-> OutOfCapacity], [ad |-> 2, resp |-> Ok]>>
    /\ opc = "exit"
    /\ outcome = "Success"

\* C30: a step of Wait records an admission only when, at the time of that
\* step, fewer than 10 recorded and fewer than 4 recorded timestamps lie in
\* the last 60 s and the last 10 s, counted over the slice and over all
\* admissions ever made, and what it records is that time; a goroutine that
\* slept goes back to the top of the loop, and no step that leaves a
\* goroutine inside the loop records anything.
C30_AdmitsOnlyBelowCeilings ==
    /\ [][admitted' # admitted
            => /\ WindowCount(requestTimestamps, now, longTermWindow) < longTermLimit
               /\ WindowCount(requestTimestamps, now, shortTermWindow) < shortTermLimit
               /\ WindowCount(admitted, now, longTermWindow) < longTermLimit
               /\ WindowCount(admitted, now, shortTermWindow) < shortTermLimit
               /\ admitted' = Append(admitted, now)
               /\ now' = now]_vars
    /\ [][\A g \in Goroutines :
            /\ pc[g] = "sleep" => pc'[g] \in {"sleep", "loop"}
            /\ (pc[g] \in {"loop", "sleep"} /\ pc'[g] \in {"loop", "sleep"})
                  => admitted' = admitted]_vars

\* C30's case: the 11th call came at 20.001 s with both ceilings reached,
\* slept for the 10 s window until 30.002 s, found the 60 s ceiling still
\* reached there, and sleeps again until 60.001 s with nothing recorded.
C30_Witness ==
    /\ now = 30002
    /\ calls = 11
    /\ Len(admitted) = longTermLimit
    /\ WindowCount(admitted, now, longTermWindow) = longTermLimit
    /\ WindowCount(admitted, now, shortTermWindow) = 0
    /\ \E g \in Goroutines : pc[g] = "sleep" /\ wake[g] = 60001

\* C31: the recorded timestamps are in non-decreasing order and never more
\* than 10; right after a Wait returns every one of them is strictly later
\* than the admission time less 60 s; and the sequence changes only in a
\* step of the goroutine that holds the mutex.
C31_RecordedWindow ==
    /\ [](\A i \in 1..Len(requestTimestamps) - 1 :
            requestTimestamps[i] <= requestTimestamps[i + 1])
    /\ [](Len(requestTimestamps) <= longTermLimit)
    /\ [][(\E g \in Goroutines : pc[g] = "loop" /\ pc'[g] = "idle")
            => \A i \in 1..Len(requestTimestamps') :
                   requestTimestamps'[i] > now - longTermWindow]_vars
    /\ [][requestTimestamps' # requestTimestamps
            => \E g \in Goroutines : mutex = g /\ pc[g] = "loop"]_vars

\* C31's case: more than ten calls were admitted, the last Wait has just
\* returned and released the mutex, the earliest timestamps were pruned, and
\* the sequence holds ten entries of different times.
C31_Witness ==
    /\ Len(admitted) > longTermLimit
    /\ Len(requestTimestamps) = longTermLimit
    /\ requestTimestamps[1] > 0
    /\ requestTimestamps[1] < requestTimestamps[longTermLimit]
    /\ requestTimestamps[longTermLimit] = now
    /\ mutex = 0

\* The earliest admission later than t - w; t - w itself when there is none.
OldestIn(h, t, w) ==
    LET inside == {h[i] : i \in {j \in 1..Len(h) : h[j] > t - w}}
    IN  IF inside = {} THEN t - w
        ELSE CHOOSE x \in inside : \A y \in inside : x <= y

\* C32: whenever the goroutine in the loop finds a ceiling reached, the
\* index longTermCount - longTermLimit (60 s ceiling) or longTermCount -
\* shortTermLimit (10 s ceiling) lies within the pruned slice, the entry
\* there is the earliest admission inside that window, and the sleep
\* duration is positive; and every sleep that starts ends later than now.
C32_SleepTarget ==
    /\ [](\A g \in Goroutines : pc[g] = "loop" =>
            LET pruned == Prune(requestTimestamps, now)
                longTermCount == Len(pruned)
                shortTermCount == ShortTermCount(pruned, now)
            IN  /\ longTermCount >= longTermLimit
                      => /\ longTermCount - longTermLimit \in 0..(Len(pruned) - 1)
                         /\ pruned[longTermCount - longTermLimit + 1]
                                = OldestIn(admitted, now, longTermWindow)
                /\ shortTermCount >= shortTermLimit
                      => /\ longTermCount - shortTermLimit \in 0..(Len(pruned) - 1)
                         /\ pruned[longTermCount - shortTermLimit + 1]
                                = OldestIn(admitted, now, shortTermWindow)
                /\ LimitsHit(longTermCount, shortTermCount)
                      => SleepDuration(pruned, now) > 0)
    /\ [][\A g \in Goroutines :
            (pc[g] = "loop" /\ pc'[g] = "sleep") => wake'[g] > now]_vars

\* C32's case: the 11th call is in the loop at 20.001 s with ten timestamps
\* in the last 60 s and four in the last 10 s.
C32_Witness ==
    /\ calls = 11
    /\ now = 20001
    /\ \E g \in Goroutines : pc[g] = "loop"
    /\ Len(Prune(requestTimestamps, now)) = longTermLimit
    /\ ShortTermCount(Prune(requestTimestamps, now), now) = shortTermLimit

\* C33: in the daemon, the ListInstances that opens a cycle after the first
\* is issued a positive time after the last provider call of the cycle
\* before returned.
C33_PositiveWaitBetweenCycles ==
    [][(/\ mode = "daemon"
        /\ apiCalls > 0
        /\ apiCalls' # apiCalls
        /\ lastCall'.op = "ListInstances")
        => lastCall'.at > lastCall.done]_vars

\* C34: a Reset of the exponential Manager sets waitUntil to the current
\* time, also when a later deadline was pending; the Wait that follows a
\* Reset returns without time passing; and a Wait leaves currentDelay,
\* waitUntil, initialDelay and maxDelay as they were.
C34_ResetCancelsDeadline ==
    /\ [][(lastOp' = "Reset" /\ now' = now) => waitUntil' = now]_vars
    /\ [][(lastOp = "Reset" /\ lastOp' = "Wait") => now' = now]_vars
    /\ [][(lastOp' = "Wait" /\ lastOp # "Wait")
            => UNCHANGED <<currentDelay, waitUntil, initialDelay, maxDelay>>]_vars
    /\ [][now' # now => UNCHANGED <<currentDelay, waitUntil, initialDelay, maxDelay>>]_vars

\* C34's case: at time 0 a HandleTMR set a deadline ahead (it left the
\* delay below the initial one, which nothing else does), a Reset followed,
\* and the Wait after it has returned with the clock still at 0.
C34_Witness ==
    /\ lastOp = "Wait"
    /\ now = 0
    /\ waitUntil = 0
    /\ initialDelay > 0
    /\ currentDelay < initialDelay

C36_APIErrorCarriesStatus ==
    /\ IsAPIError(result)
          => /\ response # NoResponse
             /\ response.StatusCode < 200 \/ response.StatusCode >= 300
             /\ result.StatusCode = response.StatusCode
    /\ (bpc = "returned" /\ response # NoResponse)
          => IF 200 <= response.StatusCode /\ response.StatusCode <= 299
             THEN result.kind = "ok"
             ELSE IsAPIError(result)

\* The times paceRequest admitted a request at.
PacedAt == [i \in 1..Len(paced) |-> paced[i].at]

\* C37: whatever requests went through paceRequest, no window (t - 60 s, t]
\* holds more than 3 of the admitted ones; it is checked for the windows
\* that end at an admission and at the current time, which hold the most.
C37_ThreePerMinute ==
    \A t \in {paced[i].at : i \in 1..Len(paced)} \cup {now} :
        WindowCount(PacedAt, t, longTermWindow) <= 3

\* C37's case: four requests were admitted as closely as the pacer lets
\* them, the fourth exactly 60 s after the first, so that the window ending
\* at the fourth holds three.
C37_Witness ==
    /\ Len(paced) = 4
    /\ paced[4].at = paced[1].at + longTermWindow
    /\ WindowCount(PacedAt, paced[4].at, longTermWindow) = 3
====
